---- MODULE Spec2Model ----
(***************************************************************************)
(* Model of train.py: accuracy(), pass_epoch() and train().                *)
(*                                                                         *)
(* Three specifications share the variables:                               *)
(*   Spec      train(): the epoch loop, calling pass_epoch batch by batch  *)
(*   SpecPass  pass_epoch() called directly with any mode and any loader   *)
(*   SpecAcc   accuracy() applied to bounded score batches                 *)
(*                                                                         *)
(* Floating-point values are records [k, num, den]: k = "fin" is the exact *)
(* rational num/den, "inf" is math.inf, "nan" a NaN, "none" an unbound     *)
(* Python name.  The scale factor of GradScaler is a power of two and is   *)
(* kept as its exponent (scale_log2).  Model parameters are abstracted to  *)
(* a version number (one per applied optimizer step) and a finiteness bit. *)
(***************************************************************************)
EXTENDS Integers, Sequences, FiniteSets

VARIABLES
    \* ---- objects shared by train() and pass_epoch()
    model,            \* [finite, version, mode, grads]
    model_optimizer,  \* [steps]: SGD state, one momentum update per step()
    scaler,           \* [enabled, scale_log2, growth_tracker]
    cuda,             \* torch.cuda.is_available()
    \* ---- the frame of the running pass_epoch() call
    pe,
    \* ---- the frame of train()
    pc, args, train_loader, val_loader, epoch, stop, min_val_loss,
    train_metrics, val_metrics, model_scheduler, writer, files,
    latest_writes, stopped_early,
    \* ---- history variables of train(): what the run has seen so far
    best_seen, worse_run, phases,
    \* ---- the direct caller of pass_epoch() (SpecPass)
    hs,
    \* ---- the accuracy() call (SpecAcc)
    ac

vars == <<model, model_optimizer, scaler, cuda, pe, pc, args, train_loader,
          val_loader, epoch, stop, min_val_loss, train_metrics, val_metrics,
          model_scheduler, writer, files, latest_writes, stopped_early,
          best_seen, worse_run, phases, hs, ac>>

objVars == <<model, model_optimizer, scaler>>

trainVars == <<pc, args, train_loader, val_loader, epoch, stop, min_val_loss,
               train_metrics, val_metrics, model_scheduler, writer, files,
               latest_writes, stopped_early, best_seen, worse_run, phases>>

-----------------------------------------------------------------------------
(* Bounds *)

MaxEpochs == 8

MaxBatches == 1

MaxPassBatches == 2

MaxCalls == 2

NumClasses == 6

MaxBatchSize == 2

(* Program constants *)

StopThreshold == 5

InitScaleLog2 == 16

GrowthInterval == 2000

MaxK == 5

-----------------------------------------------------------------------------
(* Floating-point values *)

Fin(n, d) == [k |-> "fin", num |-> n, den |-> d]

NaN == [k |-> "nan", num |-> 0, den |-> 1]

Inf == [k |-> "inf", num |-> 0, den |-> 1]

Unbound == [k |-> "none", num |-> 0, den |-> 1]

\* a <= b as Python/torch compares floats: false whenever a NaN is involved
LE(a, b) ==
    IF a.k = "nan" \/ b.k = "nan" THEN FALSE
    ELSE IF b.k = "inf" THEN TRUE
    ELSE IF a.k = "inf" THEN FALSE
    ELSE a.num * b.den <= b.num * a.den

LT(a, b) ==
    IF a.k = "nan" \/ b.k = "nan" THEN FALSE
    ELSE IF a.k = "inf" THEN FALSE
    ELSE IF b.k = "inf" THEN TRUE
    ELSE a.num * b.den < b.num * a.den

\* a + b (loss += loss_batch)
Add(a, b) ==
    IF a.k = "nan" \/ b.k = "nan" THEN NaN
    ELSE IF a.k = "inf" \/ b.k = "inf" THEN Inf
    ELSE Fin(a.num * b.den + b.num * a.den, a.den * b.den)

\* a / n for a positive integer n (loss /= i_batch + 1)
Div(a, n) ==
    IF a.k = "fin" THEN Fin(a.num, a.den * n) ELSE a

\* min(a, b), ignoring NaN operands
MinOf(a, b) ==
    IF b.k = "nan" THEN a
    ELSE IF a.k = "nan" THEN b
    ELSE IF LE(a, b) THEN a ELSE b

NoMetrics == [loss |-> Unbound, top1 |-> Unbound, top5 |-> Unbound]

-----------------------------------------------------------------------------
(* Batches: what the model and the loss make of one batch of the loader.   *)
(* loss, top1, top5 are loss_fn(model(x), y) and accuracy(model(x), y) for *)
(* finite parameters; overflow says that the scaled gradients of the batch *)
(* are non-finite even with finite parameters.                             *)

Batches ==
    { [loss |-> 1, top1 |-> 100, top5 |-> 100, overflow |-> o] : o \in BOOLEAN }
    \cup
    { [loss |-> 2, top1 |-> 0, top5 |-> 100, overflow |-> o] : o \in BOOLEAN }

RECURSIVE SeqsOfLen(_, _)
SeqsOfLen(S, n) ==
    IF n = 0 THEN { <<>> }
    ELSE { <<x>> \o s : x \in S, s \in SeqsOfLen(S, n - 1) }

\* the batch sequences a DataLoader of n batches can yield (shuffle=True)
Loaders(n) == SeqsOfLen(Batches, n)

-----------------------------------------------------------------------------
(* Model, optimizer and scaler operations on o = [model, opt, scaler]      *)

NewModel == [finite |-> TRUE, version |-> 0, mode |-> "train", grads |-> "none"]

NewOptimizer == [steps |-> 0]

\* GradScaler(): disables itself when CUDA is not available
NewScaler(hasCuda) ==
    [enabled |-> hasCuda, scale_log2 |-> InitScaleLog2, growth_tracker |-> 0]

\* loss_fn(model(x), y)
LossFn(m, b) == IF m.finite THEN Fin(b.loss, 1) ELSE NaN

\* are the gradients of loss_fn(model(x), y), scaled, all finite
GradFinite(m, b) == m.finite /\ ~b.overflow

\* model.train() / model.eval() / print("error model mode!")
SetMode(m, md) ==
    IF md = "Train" THEN [m EXCEPT !.mode = "train"]
    ELSE IF md = "Eval" THEN [m EXCEPT !.mode = "eval"]
    ELSE m

\* model_optimizer.zero_grad(); scaler.scale(loss_batch).backward()
Backward(o, b) ==
    [o EXCEPT !.model.grads =
        IF GradFinite(o.model, b) THEN "finite" ELSE "nonfinite"]

\* optimizer.step(): applies the gradients as they are
OptimizerStep(o) ==
    [o EXCEPT !.model.version = @ + 1,
              !.model.finite = @ /\ (o.model.grads = "finite"),
              !.opt.steps = @ + 1]

\* scaler.step(model_optimizer): unscale, skip the step on inf/NaN
ScalerStep(o) ==
    IF ~o.scaler.enabled THEN OptimizerStep(o)
    ELSE IF o.model.grads = "finite" THEN OptimizerStep(o)
    ELSE o

\* scaler.update(): back off on inf/NaN, grow after GrowthInterval good steps
ScalerUpdate(o) ==
    IF ~o.scaler.enabled THEN o
    ELSE IF o.model.grads # "finite"
    THEN [o EXCEPT !.scaler.scale_log2 = @ - 1, !.scaler.growth_tracker = 0]
    ELSE IF o.scaler.growth_tracker + 1 = GrowthInterval
    THEN [o EXCEPT !.scaler.scale_log2 = @ + 1, !.scaler.growth_tracker = 0]
    ELSE [o EXCEPT !.scaler.growth_tracker = @ + 1]

\* the mode == "Train" block of pass_epoch
TrainStep(o, b) == OptimizerStep(ScalerUpdate(ScalerStep(Backward(o, b))))

\* a pass that runs the training block in every mode
UpdatesModelAlways(md) == TRUE

\* if mode == "Train":
UpdatesModel(md) == md = "Train"

Objs == [model |-> model, opt |-> model_optimizer, scaler |-> scaler]

-----------------------------------------------------------------------------
(* pass_epoch(model, loader, model_optimizer, loss_fn, scaler, device, mode) *)

IdleFrame ==
    [pc |-> "idle", mode |-> "Train", loader |-> <<>>, i_batch |-> 0,
     i_batch_bound |-> FALSE, loss |-> Fin(0, 1), acc_top1 |-> 0,
     acc_top5 |-> 0, forwards |-> 0, ret |-> NoMetrics]

\* a pass that sets i_batch = 0 before the loop
IBatchBoundAlways == TRUE

\* is i_batch bound before the loop has run once
IBatchBoundBeforeLoop == FALSE

\* entry of pass_epoch: loss = 0, acc_top1 = 0, acc_top5 = 0
EnterPass(md, ld) ==
    [IdleFrame EXCEPT !.pc = "loop", !.mode = md, !.loader = ld,
                      !.i_batch_bound = IBatchBoundBeforeLoop]

\* one iteration of the loop over the loader
PassBatch ==
    /\ pe.pc = "loop"
    /\ pe.loader # <<>>
    /\ LET b  == Head(pe.loader)
           m1 == SetMode(model, pe.mode)
           o1 == [Objs EXCEPT !.model = m1]
           o2 == IF UpdatesModel(pe.mode) THEN TrainStep(o1, b) ELSE o1
       IN  /\ model' = o2.model
           /\ model_optimizer' = o2.opt
           /\ scaler' = o2.scaler
           /\ pe' = [pe EXCEPT
                 !.loader = Tail(pe.loader),
                 !.i_batch = IF pe.i_batch_bound THEN pe.i_batch + 1 ELSE 0,
                 !.i_batch_bound = TRUE,
                 !.forwards = @ + 1,
                 !.loss = Add(pe.loss, LossFn(m1, b)),
                 !.acc_top1 = @ + b.top1,
                 !.acc_top5 = @ + b.top5]
    /\ UNCHANGED <<cuda, hs, ac>>
    /\ UNCHANGED trainVars

\* after the loop: the three divisions by i_batch + 1 and the return;
\* reading the unbound i_batch raises
PassReturn ==
    /\ pe.pc = "loop"
    /\ pe.loader = <<>>
    /\ IF pe.i_batch_bound
       THEN pe' = [pe EXCEPT
                !.pc = "returned",
                !.ret = [loss |-> Div(pe.loss, pe.i_batch + 1),
                         top1 |-> Div(Fin(pe.acc_top1, 1), pe.i_batch + 1),
                         top5 |-> Div(Fin(pe.acc_top5, 1), pe.i_batch + 1)]]
       ELSE pe' = [pe EXCEPT !.pc = "raised"]
    /\ UNCHANGED <<cuda, hs, ac>>
    /\ UNCHANGED objVars
    /\ UNCHANGED trainVars

-----------------------------------------------------------------------------
(* pass_epoch() called directly: any mode, the same loader on every call   *)

Modes == {"Train", "Eval", "Test"}

IdleTrain ==
    /\ pc = "unused"
    /\ args = [epochs |-> 0]
    /\ train_loader = 0
    /\ val_loader = 0
    /\ epoch = 0
    /\ stop = 0
    /\ min_val_loss = Inf
    /\ train_metrics = NoMetrics
    /\ val_metrics = NoMetrics
    /\ model_scheduler = [steps |-> 0, last |-> Unbound]
    /\ writer = [flushes |-> 0, epoch |-> 0, train |-> NoMetrics, val |-> NoMetrics]
    /\ files = {}
    /\ latest_writes = 0
    /\ stopped_early = FALSE
    /\ best_seen = Inf
    /\ worse_run = 0
    /\ phases = <<>>

IdleAcc == ac = [pc |-> "unused", output |-> <<>>, target |-> <<>>,
                 ties |-> "low", res |-> <<>>]

IdleHarness == hs = [calls |-> 0, loader |-> <<>>, prev_mode |-> "none",
                     prev_ret |-> NoMetrics]

InitPass ==
    /\ cuda \in BOOLEAN
    /\ model = NewModel
    /\ model_optimizer = NewOptimizer
    /\ scaler = NewScaler(cuda)
    /\ pe = IdleFrame
    /\ \E n \in 0..MaxPassBatches : \E ld \in Loaders(n) :
          hs = [calls |-> 0, loader |-> ld, prev_mode |-> "none",
                prev_ret |-> NoMetrics]
    /\ IdleTrain
    /\ IdleAcc

CallPass ==
    /\ pe.pc = "idle"
    /\ hs.calls < MaxCalls
    /\ \E md \in Modes : pe' = EnterPass(md, hs.loader)
    /\ UNCHANGED <<cuda, hs, ac>>
    /\ UNCHANGED objVars
    /\ UNCHANGED trainVars

PassReturned ==
    /\ pe.pc = "returned"
    /\ hs' = [hs EXCEPT !.calls = @ + 1, !.prev_mode = pe.mode,
                        !.prev_ret = pe.ret]
    /\ pe' = [pe EXCEPT !.pc = "idle"]
    /\ UNCHANGED <<cuda, ac>>
    /\ UNCHANGED objVars
    /\ UNCHANGED trainVars

NextPass == CallPass \/ PassBatch \/ PassReturn \/ PassReturned

SpecPass == InitPass /\ [][NextPass]_vars

-----------------------------------------------------------------------------
(* train(args, model, train_loader, val_loader, writer, device)            *)

\* "{:04d}".format(n)
Format04d(n) ==
    IF n < 10000
    THEN << n \div 1000, (n \div 100) % 10, (n \div 10) % 10, n % 10 >>
    ELSE << n >>

\* "{}/checkpoint.pth.tar".format(args.output_foloder)
LatestPath == [stem |-> "checkpoint", suffix |-> << >>, ext |-> ".pth.tar"]

\* "{}/checkpoint_{:04d}.pth.tar".format(args.output_foloder, n)
NumberedPath(n) ==
    [stem |-> "checkpoint", suffix |-> Format04d(n), ext |-> ".pth.tar"]

\* the values of args.epochs the runs are started with
EpochChoices == {0, 3, MaxEpochs}

\* if val_loss <= min_val_loss:
IsBest(v, m) == LE(v, m)

\* if stop > 5:
ExceedsThreshold(s) == s > StopThreshold

InitTrain ==
    /\ cuda \in BOOLEAN
    /\ model = NewModel
    /\ model_optimizer = NewOptimizer
    /\ scaler = NewScaler(cuda)
    /\ pe = IdleFrame
    /\ pc = "start"
    /\ \E n \in EpochChoices : args = [epochs |-> n]
    /\ train_loader \in 0..MaxBatches
    /\ val_loader \in 0..MaxBatches
    /\ epoch = 0
    /\ stop = 0
    /\ min_val_loss = Inf
    /\ train_metrics = NoMetrics
    /\ val_metrics = NoMetrics
    /\ model_scheduler = [steps |-> 0, last |-> Unbound]
    /\ writer = [flushes |-> 0, epoch |-> 0, train |-> NoMetrics, val |-> NoMetrics]
    /\ files = {}
    /\ latest_writes = 0
    /\ stopped_early = FALSE
    /\ best_seen = Inf
    /\ worse_run = 0
    /\ phases = <<>>
    /\ IdleHarness
    /\ IdleAcc

\* optimizer, scheduler, first torch.save of checkpoint.pth.tar, loss_fn,
\* scaler, stop = 0, min_val_loss = math.inf
TrainEntry ==
    /\ pc = "start"
    /\ model_optimizer' = NewOptimizer
    /\ scaler' = NewScaler(cuda)
    /\ files' = files \cup {LatestPath}
    /\ latest_writes' = latest_writes + 1
    /\ stop' = 0
    /\ min_val_loss' = Inf
    /\ pc' = "loop_head"
    /\ UNCHANGED <<model, cuda, pe, args, train_loader, val_loader, epoch,
                   train_metrics, val_metrics, model_scheduler, writer,
                   stopped_early, best_seen, worse_run, phases, hs, ac>>

\* for epoch in range(args.epochs): next iteration calls pass_epoch "Train",
\* an exhausted range leaves the loop
EpochBegin ==
    /\ pc = "loop_head"
    /\ IF epoch < args.epochs
       THEN /\ \E ld \in Loaders(train_loader) : pe' = EnterPass("Train", ld)
            /\ pc' = "train_pass"
            /\ phases' = <<>>
       ELSE /\ pc' = "final_save"
            /\ UNCHANGED <<pe, phases>>
    /\ UNCHANGED <<cuda, args, train_loader, val_loader, epoch, stop,
                   min_val_loss, train_metrics, val_metrics, model_scheduler,
                   writer, files, latest_writes, stopped_early, best_seen,
                   worse_run, hs, ac>>
    /\ UNCHANGED objVars

\* a train() that feeds the scheduler right after the Train pass
TrainReturnedSkipsEval ==
    /\ pc = "train_pass"
    /\ pe.pc = "returned"
    /\ train_metrics' = pe.ret
    /\ pe' = IdleFrame
    /\ pc' = "scheduler"
    /\ phases' = Append(phases, "train")
    /\ UNCHANGED <<cuda, args, train_loader, val_loader, epoch, stop,
                   min_val_loss, val_metrics, model_scheduler, writer, files,
                   latest_writes, stopped_early, best_seen, worse_run, hs, ac>>
    /\ UNCHANGED objVars

\* train_loss, ... = pass_epoch(..., "Train") returns; pass_epoch "Eval" is called
TrainReturned ==
    /\ pc = "train_pass"
    /\ pe.pc = "returned"
    /\ train_metrics' = pe.ret
    /\ \E ld \in Loaders(val_loader) : pe' = EnterPass("Eval", ld)
    /\ pc' = "eval_pass"
    /\ phases' = Append(phases, "train")
    /\ UNCHANGED <<cuda, args, train_loader, val_loader, epoch, stop,
                   min_val_loss, val_metrics, model_scheduler, writer, files,
                   latest_writes, stopped_early, best_seen, worse_run, hs, ac>>
    /\ UNCHANGED objVars

\* val_loss, ... = pass_epoch(..., "Eval") returns
EvalReturned ==
    /\ pc = "eval_pass"
    /\ pe.pc = "returned"
    /\ val_metrics' = pe.ret
    /\ pe' = IdleFrame
    /\ pc' = "scheduler"
    /\ phases' = Append(phases, "eval")
    /\ UNCHANGED <<cuda, args, train_loader, val_loader, epoch, stop,
                   min_val_loss, train_metrics, model_scheduler, writer, files,
                   latest_writes, stopped_early, best_seen, worse_run, hs, ac>>
    /\ UNCHANGED objVars

\* the exception of pass_epoch leaves train()
PassRaised ==
    /\ pc \in {"train_pass", "eval_pass"}
    /\ pe.pc = "raised"
    /\ pc' = "crashed"
    /\ pe' = IdleFrame
    /\ UNCHANGED <<cuda, args, train_loader, val_loader, epoch, stop,
                   min_val_loss, train_metrics, val_metrics, model_scheduler,
                   writer, files, latest_writes, stopped_early, best_seen,
                   worse_run, phases, hs, ac>>
    /\ UNCHANGED objVars

\* model_scheduler.step(val_loss)
SchedulerStep ==
    /\ pc = "scheduler"
    /\ model_scheduler' = [steps |-> model_scheduler.steps + 1,
                           last |-> val_metrics.loss]
    /\ pc' = "report"
    /\ phases' = Append(phases, "scheduler")
    /\ UNCHANGED <<cuda, pe, args, train_loader, val_loader, epoch, stop,
                   min_val_loss, train_metrics, val_metrics, writer, files,
                   latest_writes, stopped_early, best_seen, worse_run, hs, ac>>
    /\ UNCHANGED objVars

\* writer.add_scalars("loss" / "top1" / "top5", {train, val}, epoch); flush
Report ==
    /\ pc = "report"
    /\ writer' = [flushes |-> writer.flushes + 1, epoch |-> epoch,
                  train |-> train_metrics, val |-> val_metrics]
    /\ pc' = "decide"
    /\ phases' = Append(phases, "report")
    /\ UNCHANGED <<cuda, pe, args, train_loader, val_loader, epoch, stop,
                   min_val_loss, train_metrics, val_metrics, model_scheduler,
                   files, latest_writes, stopped_early, best_seen, worse_run,
                   hs, ac>>
    /\ UNCHANGED objVars

\* if val_loss <= min_val_loss: val_loss = min_val_loss; save numbered
\* else: stop += 1; if stop > 5: break
Decide ==
    /\ pc = "decide"
    /\ IF IsBest(val_metrics.loss, min_val_loss)
       THEN /\ val_metrics' = [val_metrics EXCEPT !.loss = min_val_loss]
            /\ files' = files \cup {NumberedPath(epoch + 1)}
            /\ stop' = stop
            /\ epoch' = epoch + 1
            /\ pc' = "loop_head"
            /\ UNCHANGED stopped_early
       ELSE /\ stop' = stop + 1
            /\ IF ExceedsThreshold(stop + 1)
               THEN /\ stopped_early' = TRUE
                    /\ pc' = "final_save"
                    /\ UNCHANGED epoch
               ELSE /\ epoch' = epoch + 1
                    /\ pc' = "loop_head"
                    /\ UNCHANGED stopped_early
            /\ UNCHANGED <<val_metrics, files>>
    /\ best_seen' = MinOf(best_seen, val_metrics.loss)
    /\ worse_run' = IF LT(best_seen, val_metrics.loss) THEN worse_run + 1 ELSE 0
    /\ phases' = Append(phases, "decide")
    /\ UNCHANGED <<cuda, pe, args, train_loader, val_loader, min_val_loss,
                   train_metrics, model_scheduler, writer, latest_writes,
                   hs, ac>>
    /\ UNCHANGED objVars

\* a train() whose early-stop exit returns without the last save
FinalSaveUnlessEarly ==
    /\ pc = "final_save"
    /\ files' = files
    /\ latest_writes' = IF stopped_early THEN latest_writes ELSE latest_writes + 1
    /\ pc' = "done"
    /\ UNCHANGED <<cuda, pe, args, train_loader, val_loader, epoch, stop,
                   min_val_loss, train_metrics, val_metrics, model_scheduler,
                   writer, stopped_early, best_seen, worse_run, phases, hs, ac>>
    /\ UNCHANGED objVars

\* torch.save(model, ".../checkpoint.pth.tar") after the loop
FinalSave ==
    /\ pc = "final_save"
    /\ files' = files \cup {LatestPath}
    /\ latest_writes' = latest_writes + 1
    /\ pc' = "done"
    /\ UNCHANGED <<cuda, pe, args, train_loader, val_loader, epoch, stop,
                   min_val_loss, train_metrics, val_metrics, model_scheduler,
                   writer, stopped_early, best_seen, worse_run, phases, hs, ac>>
    /\ UNCHANGED objVars

Next ==
    \/ TrainEntry
    \/ EpochBegin
    \/ PassBatch
    \/ PassReturn
    \/ TrainReturned
    \/ EvalReturned
    \/ PassRaised
    \/ SchedulerStep
    \/ Report
    \/ Decide
    \/ FinalSave

Spec == InitTrain /\ [][Next]_vars

-----------------------------------------------------------------------------
(* accuracy(output, target, topk=(1, 5))                                   *)
(* output[i] is the score row of sample i over the classes 1..NumClasses   *)
(* (the source counts classes from 0), target[i] its true class.  Equal    *)
(* scores are ranked by torch.topk in an unspecified order: ties is the    *)
(* order this call uses.  Percentages are exact rationals.                 *)

Classes == 1..NumClasses

\* the score rows the calls are made with: all scores distinct (best class
\* first, best class last), a tie for rank 1, a tie across rank MaxK
ScoreRows ==
    { [c \in Classes |-> NumClasses + 1 - c],
      [c \in Classes |-> c],
      [c \in Classes |-> IF c <= 2 THEN NumClasses ELSE NumClasses - c],
      [c \in Classes |-> IF c >= MaxK THEN 0 ELSE NumClasses - c] }

\* does class i rank before class j in row
RanksBefore(row, i, j, ties) ==
    \/ row[i] > row[j]
    \/ /\ row[i] = row[j]
       /\ IF ties = "low" THEN i <= j ELSE i >= j

\* output.topk(k, 1, True, True) for one row: the k best classes, best first
RECURSIVE TopK(_, _, _, _)
TopK(row, rem, k, ties) ==
    IF k = 0 \/ rem = {} THEN << >>
    ELSE LET best == CHOOSE i \in rem :
                        \A j \in rem : RanksBefore(row, i, j, ties)
         IN  << best >> \o TopK(row, rem \ {best}, k - 1, ties)

\* pred = topk(...).t(); correct = pred.eq(target.view(1, -1).expand_as(pred))
\* correct[j][i]: is the j-th best class of sample i its true class
Correct(output, target, maxk, ties) ==
    [j \in 1..maxk |->
        [i \in 1..Len(target) |->
            TopK(output[i], Classes, maxk, ties)[j] = target[i]]]

\* the number of TRUE entries of the rows 1..k of correct
RECURSIVE SumRows(_, _, _)
SumRows(correct, k, n) ==
    IF k = 0 THEN 0
    ELSE Cardinality({i \in 1..n : correct[k][i]}) + SumRows(correct, k - 1, n)

\* a sum over every row of correct, whatever k is
CorrectKAll(correct, k, n) == SumRows(correct, MaxK, n)

\* correct[:k].reshape(-1).float().sum(0, keepdim=True)
CorrectK(correct, k, n) == SumRows(correct, k, n)

\* the list res of accuracy(), one percentage per k of topk
Accuracy(output, target, topk, ties) ==
    LET maxk       == IF topk[1] >= topk[2] THEN topk[1] ELSE topk[2]
        batch_size == Len(target)
        correct    == Correct(output, target, maxk, ties)
    IN  [x \in 1..Len(topk) |->
            Fin(CorrectK(correct, topk[x], batch_size) * 100, batch_size)]

InitAcc ==
    /\ \E n \in 1..MaxBatchSize :
          \E out \in SeqsOfLen(ScoreRows, n) :
             \E tgt \in SeqsOfLen(Classes, n) :
                \E t \in {"low", "high"} :
                   ac = [pc |-> "call", output |-> out, target |-> tgt,
                         ties |-> t, res |-> << >>]
    /\ cuda = FALSE
    /\ model = NewModel
    /\ model_optimizer = NewOptimizer
    /\ scaler = NewScaler(cuda)
    /\ pe = IdleFrame
    /\ IdleTrain
    /\ IdleHarness

\* loss_batch_acc_top = accuracy(y_pred, y, topk=(1, 5))
AccuracyCall ==
    /\ ac.pc = "call"
    /\ ac' = [ac EXCEPT !.pc = "done",
                        !.res = Accuracy(ac.output, ac.target, <<1, MaxK>>,
                                         ac.ties)]
    /\ UNCHANGED <<cuda, pe, hs>>
    /\ UNCHANGED objVars
    /\ UNCHANGED trainVars

NextAcc == AccuracyCall

SpecAcc == InitAcc /\ [][NextAcc]_vars

-----------------------------------------------------------------------------
(* Claims *)

IsPrefix(s, t) == Len(s) <= Len(t) /\ \A i \in 1..Len(s) : s[i] = t[i]

PhaseOrder == <<"train", "eval", "scheduler", "report", "decide">>

\* the step of train() that takes the checkpoint / early-stop decision
DecideStep == pc = "decide" /\ pc' # "decide"

\* the step of pass_epoch() that processes one batch
BatchStep == pe.pc = "loop" /\ pe.loader # << >> /\ pe'.forwards = pe.forwards + 1

\* C1: once the validation loss has been strictly worse than the best-seen
\* validation loss for 6 consecutive epochs (StopThreshold + 1), the epoch
\* loop has been left by early stopping, whatever number of epochs remains.
C1_StopsAfterSixWorse ==
    worse_run >= StopThreshold + 1
        => stopped_early /\ pc \in {"final_save", "done"}

\* C2: the decision of every epoch leaves the early-stop counter at 0 when
\* the epoch's validation loss is <= the best validation loss of the earlier
\* epochs (infinity before the first), and otherwise one above its value
\* before; the counter is never negative.
C2_CounterResetsOrIncrements ==
    [][DecideStep =>
          /\ stop' >= 0
          /\ IF LE(val_metrics.loss, best_seen)
             THEN stop' = 0
             ELSE stop' = stop + 1]_vars

\* C3: the decision of an epoch writes checkpoint_{epoch+1} if and only if
\* the epoch's validation loss is <= the best validation loss of the earlier
\* epochs (infinity before the first).
C3_NumberedIffBest ==
    [][DecideStep =>
          ((NumberedPath(epoch + 1) \in files')
              <=> LE(val_metrics.loss, best_seen))]_vars

\* C4: a Train-mode batch whose gradients are non-finite leaves the model
\* parameters as they were and halves the scale factor; the parameters
\* change only in a batch whose gradients are all finite.
C4_OverflowSkipsUpdate ==
    [][(BatchStep /\ pe.mode = "Train") =>
          /\ ~GradFinite(model, Head(pe.loader))
                => /\ model'.version = model.version
                   /\ model'.finite = model.finite
                   /\ scaler'.scale_log2 = scaler.scale_log2 - 1
          /\ model'.version # model.version
                => GradFinite(model, Head(pe.loader))]_vars

\* C5: checkpoint.pth.tar, a path no numbered checkpoint has, is written
\* once on entry before the first epoch and once more when the epoch loop is
\* left, by exhausting args.epochs and by early stopping alike.
C5_LatestCheckpoint ==
    /\ pc = "start" => latest_writes = 0
    /\ pc \notin {"start", "done"}
          => latest_writes = 1 /\ LatestPath \in files
    /\ pc = "done" => latest_writes = 2 /\ LatestPath \in files
    /\ \A n \in 1..(epoch + 1) :
          NumberedPath(n) \in files => NumberedPath(n) # LatestPath
    /\ pc = "final_save" => (stopped_early \/ epoch = args.epochs)

C5_Witness ==
    /\ pc = "done"
    /\ stopped_early
    /\ epoch + 1 < args.epochs
    /\ latest_writes = 2

\* C6: a batch of an Eval pass leaves the model parameters, the gradients,
\* the optimizer state and the scaler as they were, and an Eval pass that
\* follows an Eval pass over the same batch sequence returns the same
\* (loss, top1, top5).
C6_EvalChangesNothing ==
    [][/\ (pe.pc = "loop" /\ pe.mode = "Eval")
             => /\ model'.version = model.version
                /\ model'.finite = model.finite
                /\ model'.grads = model.grads
                /\ model_optimizer' = model_optimizer
                /\ scaler' = scaler
       /\ (pe.pc = "loop" /\ pe'.pc = "returned" /\ pe.mode = "Eval"
              /\ hs.prev_mode = "Eval")
             => pe'.ret = hs.prev_ret]_vars

C6_Witness ==
    /\ pe.pc = "returned"
    /\ pe.mode = "Eval"
    /\ hs.prev_mode = "Eval"
    /\ pe.forwards = MaxPassBatches
    /\ pe.ret = hs.prev_ret
    /\ \E i \in 1..Len(hs.loader) : hs.loader[i].overflow

\* C7: a pass whose mode is neither "Train" nor "Eval" runs the model on no
\* batch and returns no metrics.
C7_BadModeFails ==
    (pe.pc # "idle" /\ pe.mode \notin {"Train", "Eval"})
        => pe.forwards = 0 /\ pe.pc # "returned"

\* C8: a pass over a loader that yields no batch raises instead of
\* returning: a pass that returns has divided by a batch count of at least
\* one, and a pass that raised has returned no metrics.
C8_EmptyLoaderFails ==
    /\ pe.pc = "returned"
          => pe.forwards >= 1 /\ pe.i_batch + 1 = pe.forwards
    /\ (pe.pc \in {"returned", "raised"} /\ pe.forwards = 0)
          => pe.pc = "raised" /\ pe.ret = NoMetrics
    /\ (pe.pc = "loop" /\ hs.loader = << >>) => pe.ret = NoMetrics

C8_Witness ==
    /\ pe.pc = "raised"
    /\ hs.loader = << >>
    /\ pe.forwards = 0
    /\ pe.ret = NoMetrics

\* the classes of row scored strictly higher than class c / at least as high
Above(row, c) == {j \in Classes : row[j] > row[c]}

NotBelow(row, c) == {j \in Classes \ {c} : row[j] >= row[c]}

\* the samples whose true class is among the k highest-scored classes under
\* every ranking of equal scores / under some ranking of equal scores
SurelyInTopK(k) ==
    {i \in 1..Len(ac.target) :
        Cardinality(NotBelow(ac.output[i], ac.target[i])) < k}

MaybeInTopK(k) ==
    {i \in 1..Len(ac.target) :
        Cardinality(Above(ac.output[i], ac.target[i])) < k}

PercentOf(k) == IF k = 1 THEN ac.res[1] ELSE ac.res[2]

\* C9: for a non-empty batch over at least 5 classes, top-1 and top-5 of
\* accuracy(output, target, topk=(1, 5)) lie in [0, 100], top5 >= top1, and
\* each is 100 x (samples whose true class is among the k highest-scored
\* classes) / batch size; where equal scores leave the k highest-scored
\* classes open, the count lies between the two readings.
C9_AccuracyIsTopKPercent ==
    ac.pc = "done" =>
        /\ \A k \in {1, MaxK} :
              /\ LE(Fin(0, 1), PercentOf(k))
              /\ LE(PercentOf(k), Fin(100, 1))
              /\ LE(Fin(100 * Cardinality(SurelyInTopK(k)), Len(ac.target)),
                    PercentOf(k))
              /\ LE(PercentOf(k),
                    Fin(100 * Cardinality(MaybeInTopK(k)), Len(ac.target)))
        /\ LE(PercentOf(1), PercentOf(MaxK))

C9_Witness ==
    /\ ac.pc = "done"
    /\ Len(ac.target) = MaxBatchSize
    /\ SurelyInTopK(1) = MaybeInTopK(1)
    /\ SurelyInTopK(MaxK) = MaybeInTopK(MaxK)
    /\ LT(PercentOf(1), PercentOf(MaxK))
    /\ LT(PercentOf(MaxK), Fin(100, 1))

\* C10: in every epoch the phases run in the order Train pass, Eval pass,
\* scheduler update with the epoch's validation loss, report of the six
\* metrics under the epoch's index, checkpoint / early-stop decision; the
\* Eval pass runs only after the Train pass has returned, and the counter,
\* the numbered checkpoints and the early stop change only in the decision,
\* after both passes.
C10_PhaseOrder ==
    [][/\ IsPrefix(phases', PhaseOrder)
       /\ (pe'.pc = "loop" /\ pe'.mode = "Train") => phases' = << >>
       /\ (pe'.pc = "loop" /\ pe'.mode = "Eval") => phases' = <<"train">>
       /\ model_scheduler' # model_scheduler
             => /\ phases = <<"train", "eval">>
                /\ model_scheduler'.last = val_metrics.loss
                /\ model_scheduler'.steps = epoch + 1
       /\ writer' # writer
             => /\ phases = <<"train", "eval", "scheduler">>
                /\ writer'.epoch = epoch
                /\ writer'.train = train_metrics
                /\ writer'.val = val_metrics
                /\ model_scheduler.last = val_metrics.loss
       /\ (stop' # stop \/ stopped_early' # stopped_early
              \/ files' \ {LatestPath} # files \ {LatestPath})
             => /\ phases = <<"train", "eval", "scheduler", "report">>
                /\ pe.pc = "idle"
                /\ writer.epoch = epoch
                /\ writer.flushes = epoch + 1]_vars

C10_Witness ==
    /\ pc = "final_save"
    /\ stopped_early
    /\ phases = PhaseOrder
    /\ writer.epoch = epoch
    /\ stop = StopThreshold + 1

====
